---- MODULE Spec2Model ----
(***************************************************************************)
(* Model of the continuous-feed ingestion engine of oanda.go:              *)
(*   - Candlestick.NewerThan, the candle ordering rule,                    *)
(*   - getCandlesStream, the polling loop with its cursor (lastCandle),    *)
(*   - getStream / getTransactionStream, the line consumers, and the       *)
(*     heartbeat watchdog goroutine each of them starts.                   *)
(* Three machines share the variables; each specification runs one machine *)
(* and leaves the variables of the others at their initial values.         *)
(***************************************************************************)
EXTENDS Integers, Sequences, FiniteSets, TLC

VARIABLES
    \* ---- NewerThan applied to one pair of candles
    self,            \* the receiver of NewerThan (the candidate bar)
    other,           \* its argument (the last bar of the previous batch)
    newer,           \* <<>> before the call, <<result>> after it
    \* ---- getCandlesStream
    completedOnly,   \* the --completed-only flag
    lastCandle,      \* *Candlestick: <<>> is nil, <<c>> points to c
    from,            \* start of the next request's window
    ppc,             \* "polling" | "returned" | "panicked"
    perr,            \* the error getCandlesStream returned ("" while polling)
    batches,         \* history: the batches received, one per cycle
    cursors,         \* history: lastCandle at the start of each cycle
    froms,           \* history: from at the start of each cycle
    emissions,       \* history: the lines printed in each cycle
    \* ---- getStream / getTransactionStream and the watchdog goroutine
    feed,            \* "pricing" (getStream) | "transactions" (getTransactionStream)
    heartbeat,       \* the --heartbeat flag: print heartbeat lines
    heartbeatTimeout,\* the --heartbeat-timeout duration in ticks, 0 disables
    cpc,             \* consumer: "read" | "send" | "returned"
    wpc,             \* watchdog: "none" | "loop" | "select" | "panicked"
    proc,            \* the process: "running" | "exited" | "panicked"
    line,            \* the heartbeat line held while blocked on the send
    input,           \* history: the lines ReadLine has returned
    stdout,          \* the lines printed
    err,             \* what the consumer returned ("" before it returns)
    readErr,         \* history: the error ReadLine reported ("" if none yet)
    signals,         \* history: signals the watchdog has received
    timer,           \* ticks left of the pending time.After
    sinceSignal      \* ticks since the last received signal (or the start),
                     \* counted up to heartbeatTimeout

cmpVars  == <<self, other, newer>>
pollVars == <<completedOnly, lastCandle, from, ppc, perr, batches, cursors, froms, emissions>>
streamVars == <<feed, heartbeat, heartbeatTimeout, cpc, wpc, proc, line, input,
                stdout, err, readErr, signals, timer, sinceSignal>>
vars     == <<cmpVars, pollVars, streamVars>>

----------------------------------------------------------------------------
(* Bounds of the exploration *)

\* poll cycles of one run
MaxPolls == 3
\* lengths of a response batch
BatchLens == {0, 1, 2}
\* bars received over one run
MaxBars == 3

\* timestamps, volumes and the bars built from them
Times == {0, 1}
Volumes == {1, 3, 5}
Candles == [time : Times, complete : BOOLEAN, volume : Volumes]

\* a response batch: non-decreasing timestamps, as the upstream feed supplies it
Sorted(b) == \A i \in 1..(Len(b) - 1) : b[i].time <= b[i + 1].time
BatchesOfLen(k) == {b \in [1..k -> Candles] : Sorted(b)}
Batches == UNION {BatchesOfLen(k) : k \in BatchLens}

----------------------------------------------------------------------------
(* Candlestick.NewerThan *)

\* mutant: the volume comparison of two incomplete bars admits equality
NewerThan_VolumeGeq(s, o) ==
    IF s.time > o.time THEN TRUE
    ELSE IF s.time = o.time
         THEN IF s.complete = FALSE /\ o.complete = FALSE THEN s.volume >= o.volume
              ELSE IF s.complete = TRUE /\ o.complete = FALSE THEN TRUE
              ELSE FALSE
         ELSE FALSE

\* mutant: a later bar counts as newer only when it is complete
NewerThan_LaterNeedsComplete(s, o) ==
    IF s.time > o.time THEN s.complete
    ELSE IF s.time = o.time
         THEN IF s.complete = FALSE /\ o.complete = FALSE THEN s.volume > o.volume
              ELSE IF s.complete = TRUE /\ o.complete = FALSE THEN TRUE
              ELSE FALSE
         ELSE FALSE

\* mutant: a bar that has become complete is not told from the incomplete one
NewerThan_NoFinalize(s, o) ==
    IF s.time > o.time THEN TRUE
    ELSE IF s.time = o.time
         THEN IF s.complete = FALSE /\ o.complete = FALSE THEN s.volume > o.volume
              ELSE FALSE
         ELSE FALSE

\* mutant: a complete bar is newer than any bar of its timestamp
NewerThan_CompleteAlways(s, o) ==
    IF s.time > o.time THEN TRUE
    ELSE IF s.time = o.time
         THEN IF s.complete = FALSE /\ o.complete = FALSE THEN s.volume > o.volume
              ELSE IF s.complete = TRUE THEN TRUE
              ELSE FALSE
         ELSE FALSE

NewerThan(s, o) ==
    IF s.time > o.time THEN TRUE
    ELSE IF s.time = o.time
         THEN IF s.complete = FALSE /\ o.complete = FALSE THEN s.volume > o.volume
              ELSE IF s.complete = TRUE /\ o.complete = FALSE THEN TRUE
              ELSE FALSE
         ELSE FALSE

\* one call self.NewerThan(other)
Compare ==
    /\ newer = <<>>
    /\ newer' = <<NewerThan(self, other)>>
    /\ UNCHANGED <<self, other, pollVars, streamVars>>

----------------------------------------------------------------------------
(* getCandlesStream *)

\* json.Marshal(candle): the fields in the struct's order (the price views
\* carry no state of the poller and are left out)
Marshal(c) == <<c.complete, c.volume, c.time>>

\* mutant: the completed-only filter is not applied
Printed_NoFilter(c, last, only) == last = <<>> \/ NewerThan(c, last[1])

\* whether the loop body prints bar c, with lastCandle = last
Printed(c, last, only) ==
    /\ ~(only /\ c.complete = FALSE)
    /\ (last = <<>> \/ NewerThan(c, last[1]))

\* mutant: lastCandle is assigned inside the loop, at each bar printed
RECURSIVE Emitted_CursorMoves(_, _, _)
Emitted_CursorMoves(b, last, only) ==
    IF b = <<>> THEN <<>>
    ELSE IF Printed(Head(b), last, only)
         THEN <<Marshal(Head(b))>> \o Emitted_CursorMoves(Tail(b), <<Head(b)>>, only)
         ELSE Emitted_CursorMoves(Tail(b), last, only)

\* the lines the for-range loop prints for batch b; lastCandle is not
\* assigned inside the loop
RECURSIVE Emitted(_, _, _)
Emitted(b, last, only) ==
    IF b = <<>> THEN <<>>
    ELSE (IF Printed(Head(b), last, only) THEN <<Marshal(Head(b))>> ELSE <<>>)
         \o Emitted(Tail(b), last, only)

\* mutant: a bar the loop skipped does not become lastCandle; the cursor is
\* the last bar of b the completed-only filter lets through, if there is one
RECURSIVE AdvanceCursor_SkipIncomplete(_, _, _)
AdvanceCursor_SkipIncomplete(b, last, only) ==
    IF b = <<>> THEN last
    ELSE IF only /\ b[Len(b)].complete = FALSE
         THEN AdvanceCursor_SkipIncomplete(SubSeq(b, 1, Len(b) - 1), last, only)
         ELSE <<b[Len(b)]>>

\* lastCandle after the batch
AdvanceCursor(b, last, only) ==
    IF Len(b) # 0 THEN <<b[Len(b)]>> ELSE last

RECURSIVE TotalBars(_)
TotalBars(bs) == IF bs = <<>> THEN 0 ELSE Len(Head(bs)) + TotalBars(Tail(bs))

\* the body of the loop for a successful response carrying batch b
Cycle(b) ==
    /\ TotalBars(batches) + Len(b) <= MaxBars
    /\ emissions' = Append(emissions, Emitted(b, lastCandle, completedOnly))
    /\ lastCandle' = AdvanceCursor(b, lastCandle, completedOnly)
    /\ from' = IF Len(b) # 0 /\ lastCandle' # <<>> THEN lastCandle'[1].time ELSE from
    /\ batches' = Append(batches, b)
    /\ cursors' = Append(cursors, lastCandle)
    /\ froms' = Append(froms, from)
    /\ UNCHANGED <<completedOnly, ppc, perr, cmpVars, streamVars>>

\* one cycle of the loop: the request succeeds and returns some batch
PollOk ==
    /\ ppc = "polling"
    /\ Len(batches) < MaxPolls
    /\ \E b \in Batches : Cycle(b)

\* getCandlesForStream returns an error: transport failure, non-200 status,
\* or a body json.Unmarshal rejects
PollError(e) ==
    /\ ppc = "polling"
    /\ ppc' = "returned"
    /\ perr' = e
    /\ UNCHANGED <<completedOnly, lastCandle, from, batches, cursors, froms, emissions, cmpVars, streamVars>>

\* the body parses but has no "candles" member: body.Candles is nil and
\* `range *candles` dereferences it
PollNilCandles ==
    /\ ppc = "polling"
    /\ ppc' = "panicked"
    /\ UNCHANGED <<completedOnly, lastCandle, from, perr, batches, cursors, froms, emissions, cmpVars, streamVars>>

PollErrors == {"transport", "status", "unmarshal"}

----------------------------------------------------------------------------
(* getStream, getTransactionStream and their watchdog goroutine *)

\* lines read from one stream
MaxLines == 3

\* --heartbeat-timeout values, in ticks of the clock
Timeouts == {0, 3}

\* What a line of the response body holds.  "MALFORMED" stands for every line
\* json.Unmarshal rejects: text that is not JSON, a `type` that is not a
\* string, an empty line, a fragment of a line longer than the reader's
\* buffer.  "NOTYPE" is a JSON object without a `type` member.
Bodies == {"PRICE", "HEARTBEAT", "ORDER_FILL", "NOTYPE", "MALFORMED"}

\* the errors reader.ReadLine returns; the end of the stream is io.EOF
ReadErrors == {"EOF", "read"}

\* mutant: a line that does not decode is taken as an object without a type
Unmarshal_Lenient(l) ==
    IF l.body \in {"MALFORMED", "NOTYPE"} THEN [err |-> "nil", Type |-> ""]
    ELSE [err |-> "nil", Type |-> l.body]

\* json.Unmarshal(line, &ph): the error, and ph.Type (left "" when the
\* object has no `type` member)
Unmarshal(l) ==
    IF l.body = "MALFORMED" THEN [err |-> "unmarshal", Type |-> ""]
    ELSE IF l.body = "NOTYPE" THEN [err |-> "nil", Type |-> ""]
    ELSE [err |-> "nil", Type |-> l.body]

\* mutant: the transaction feed tests for the price feed's type
PayloadBranch_PriceOnly(f, type) == type = "PRICE"

\* the branch that prints a payload line: `ph.Type == "PRICE"` in getStream,
\* the else of `th.Type == "HEARTBEAT"` in getTransactionStream
PayloadBranch(f, type) ==
    IF f = "pricing" THEN type = "PRICE" ELSE type # "HEARTBEAT"

\* the branch that handles a heartbeat line
HeartbeatBranch(f, type) == type = "HEARTBEAT"

\* mutant: the watchdog is taken to be enabled whatever the timeout
WatchdogEnabled_Always(t) == TRUE

\* `heartbeatTimeout != 0`
WatchdogEnabled(t) == t # 0

\* mutant: heartbeat lines are printed whatever the --heartbeat flag
PrintsHeartbeat_Always(flag) == TRUE

\* `if heartbeat { fmt.Println(string(line)) }`
PrintsHeartbeat(flag) == flag

\* fmt.Println(string(line)): the line, as read, is added to the output
Println(out, l) == Append(out, l)

\* `if err != nil { return err }` after ReadLine
ReturnOfReadError(e) == e

\* reader.ReadLine fails: the end of the stream (io.EOF) or a read error
ReadLineError(e) ==
    /\ proc = "running"
    /\ cpc = "read"
    /\ cpc' = "returned"
    /\ err' = ReturnOfReadError(e)
    /\ readErr' = e
    /\ UNCHANGED <<feed, heartbeat, heartbeatTimeout, wpc, proc, line, input,
                   stdout, signals, timer, sinceSignal, cmpVars, pollVars>>

\* one pass of the loop over a line that was read: decode, classify, print;
\* a heartbeat line with the watchdog enabled stops at the channel send
ReadLine(body) ==
    /\ proc = "running"
    /\ cpc = "read"
    /\ Len(input) < MaxLines
    /\ LET l == [n |-> Len(input) + 1, body |-> body]
           ph == Unmarshal(l)
       IN  /\ input' = Append(input, l)
           /\ IF ph.err # "nil"
              THEN /\ cpc' = "returned"
                   /\ err' = ph.err
                   /\ UNCHANGED <<line, stdout>>
              ELSE IF PayloadBranch(feed, ph.Type)
              THEN /\ stdout' = Println(stdout, l)
                   /\ UNCHANGED <<cpc, err, line>>
              ELSE IF HeartbeatBranch(feed, ph.Type)
              THEN IF WatchdogEnabled(heartbeatTimeout)
                   THEN /\ cpc' = "send"
                        /\ line' = <<l>>
                        /\ UNCHANGED <<err, stdout>>
                   ELSE /\ stdout' = IF PrintsHeartbeat(heartbeat)
                                     THEN Println(stdout, l) ELSE stdout
                        /\ UNCHANGED <<cpc, err, line>>
              ELSE UNCHANGED <<cpc, err, line, stdout>>
    /\ UNCHANGED <<feed, heartbeat, heartbeatTimeout, wpc, proc, readErr, signals,
                   timer, sinceSignal, cmpVars, pollVars>>

\* mutant: the watchdog goroutine has no `for`: it returns after one signal
AfterReceive_Return == "done"

\* where the watchdog is after `case <-heartbeatChannel:`, whose body is
\* empty: at the top of its `for` loop again
AfterReceive == "loop"

\* mutant: a send that does not wait, `select { case ch <- struct{}{}: default: }`:
\* with the watchdog not in its select the signal is dropped
Signal_NonBlocking ==
    /\ proc = "running"
    /\ cpc = "send"
    /\ IF wpc = "select"
       THEN /\ signals' = signals + 1
            /\ sinceSignal' = 0
            /\ wpc' = "loop"
            /\ timer' = 0
       ELSE UNCHANGED <<signals, sinceSignal, wpc, timer>>
    /\ stdout' = IF PrintsHeartbeat(heartbeat) THEN Println(stdout, line[1]) ELSE stdout
    /\ line' = <<>>
    /\ cpc' = "read"
    /\ UNCHANGED <<feed, heartbeat, heartbeatTimeout, proc, input, err, readErr,
                   cmpVars, pollVars>>

\* `heartbeatChannel <- struct{}{}` meets `case <-heartbeatChannel:`: the
\* channel is unbuffered, so the send completes only with the watchdog in its
\* select; the consumer then prints the line if asked to and reads on, the
\* watchdog goes round its loop
Signal ==
    /\ proc = "running"
    /\ cpc = "send"
    /\ wpc = "select"
    /\ signals' = signals + 1
    /\ sinceSignal' = 0
    /\ wpc' = AfterReceive
    /\ timer' = 0
    /\ stdout' = IF PrintsHeartbeat(heartbeat) THEN Println(stdout, line[1]) ELSE stdout
    /\ line' = <<>>
    /\ cpc' = "read"
    /\ UNCHANGED <<feed, heartbeat, heartbeatTimeout, proc, input, err, readErr,
                   cmpVars, pollVars>>

\* mutant: one timer for the whole loop, created before it
Rearm_Keep(t, left) == left

\* the timer a pass of the watchdog's loop waits on: time.After(heartbeatTimeout)
\* is evaluated anew each time the select is entered
Rearm(t, left) == t

\* the watchdog enters its select
WatchdogSelect ==
    /\ proc = "running"
    /\ wpc = "loop"
    /\ wpc' = "select"
    /\ timer' = Rearm(heartbeatTimeout, timer)
    /\ UNCHANGED <<feed, heartbeat, heartbeatTimeout, cpc, proc, line, input, stdout,
                   err, readErr, signals, sinceSignal, cmpVars, pollVars>>

\* mutant: on a timeout the watchdog ends the process with an ordinary exit
TimeoutOutcome_Exit == "exited"

\* `panic("heartbeat timeout")` in a goroutine ends the whole process
TimeoutOutcome == "panicked"

\* `case <-time.After(heartbeatTimeout):` the timer has run out
Timeout ==
    /\ proc = "running"
    /\ wpc = "select"
    /\ timer = 0
    /\ wpc' = "panicked"
    /\ proc' = TimeoutOutcome
    /\ UNCHANGED <<feed, heartbeat, heartbeatTimeout, cpc, line, input, stdout, err,
                   readErr, signals, timer, sinceSignal, cmpVars, pollVars>>

\* the clock advances by one tick
Tick ==
    /\ proc = "running"
    /\ timer' = IF wpc = "select" /\ timer > 0 THEN timer - 1 ELSE timer
    /\ sinceSignal' = IF sinceSignal < heartbeatTimeout THEN sinceSignal + 1 ELSE sinceSignal
    /\ UNCHANGED <<feed, heartbeat, heartbeatTimeout, cpc, wpc, proc, line, input,
                   stdout, err, readErr, signals, cmpVars, pollVars>>

\* the action returns what the consumer returned, and main ends the process:
\* log.Fatal(err) for an error, the end of main for nil
Exit ==
    /\ proc = "running"
    /\ cpc = "returned"
    /\ proc' = "exited"
    /\ UNCHANGED <<feed, heartbeat, heartbeatTimeout, cpc, wpc, line, input, stdout,
                   err, readErr, signals, timer, sinceSignal, cmpVars, pollVars>>

----------------------------------------------------------------------------
(* Specifications *)

CmpIdle ==
    /\ self = [time |-> 0, complete |-> FALSE, volume |-> 1]
    /\ other = [time |-> 0, complete |-> FALSE, volume |-> 1]
    /\ newer = <<>>

PollIdle ==
    /\ completedOnly = FALSE
    /\ lastCandle = <<>>
    /\ from = 0
    /\ ppc = "returned"
    /\ perr = ""
    /\ batches = <<>>
    /\ cursors = <<>>
    /\ froms = <<>>
    /\ emissions = <<>>

StreamIdle ==
    /\ feed = "pricing"
    /\ heartbeat = FALSE
    /\ heartbeatTimeout = 0
    /\ cpc = "returned"
    /\ wpc = "none"
    /\ proc = "exited"
    /\ line = <<>>
    /\ input = <<>>
    /\ stdout = <<>>
    /\ err = ""
    /\ readErr = ""
    /\ signals = 0
    /\ timer = 0
    /\ sinceSignal = 0

InitCmp ==
    /\ self \in Candles
    /\ other \in Candles
    /\ newer = <<>>
    /\ PollIdle
    /\ StreamIdle

NextCmp == Compare

SpecCmp == InitCmp /\ [][NextCmp]_vars

InitPoller ==
    /\ completedOnly \in BOOLEAN
    /\ lastCandle = <<>>
    /\ from = 0
    /\ ppc = "polling"
    /\ perr = ""
    /\ batches = <<>>
    /\ cursors = <<>>
    /\ froms = <<>>
    /\ emissions = <<>>
    /\ CmpIdle
    /\ StreamIdle

\* every request succeeds
NextPoller == PollOk

SpecPoller == InitPoller /\ [][NextPoller]_vars

\* requests may fail
NextPollerFail ==
    \/ PollOk
    \/ \E e \in PollErrors : PollError(e)
    \/ PollNilCandles

SpecPollerFail == InitPoller /\ [][NextPollerFail]_vars

\* the state once the response has status 200: the channel is made, the
\* watchdog goroutine is started if the timeout is not zero, and the
\* consumer is about to read its first line
InitStream ==
    /\ feed \in {"pricing", "transactions"}
    /\ heartbeat \in BOOLEAN
    /\ heartbeatTimeout \in Timeouts
    /\ cpc = "read"
    /\ wpc = IF WatchdogEnabled(heartbeatTimeout) THEN "loop" ELSE "none"
    /\ proc = "running"
    /\ line = <<>>
    /\ input = <<>>
    /\ stdout = <<>>
    /\ err = ""
    /\ readErr = ""
    /\ signals = 0
    /\ timer = 0
    /\ sinceSignal = 0
    /\ CmpIdle
    /\ PollIdle

NextStream ==
    \/ \E body \in Bodies : ReadLine(body)
    \/ \E e \in ReadErrors : ReadLineError(e)
    \/ Signal
    \/ WatchdogSelect
    \/ Timeout
    \/ Tick
    \/ Exit

SpecStream == InitStream /\ [][NextStream]_vars

\* the Go scheduler runs a goroutine that can run, and time passes
FairStream ==
    /\ SpecStream
    /\ WF_vars(WatchdogSelect)
    /\ WF_vars(Timeout)
    /\ WF_vars(Tick)

----------------------------------------------------------------------------
(* The ordering rule *)

\* C1: for two bars of equal timestamp, self.NewerThan(other) is true exactly
\* when self is complete and other is not, or both are incomplete and self has
\* the larger volume; in every other equal-timestamp case it is false.
C1_EqualTimestamps ==
    (newer # <<>> /\ self.time = other.time) =>
        (newer[1] <=> \/ (self.complete /\ ~other.complete)
                      \/ (~self.complete /\ ~other.complete /\ self.volume > other.volume))

C1_Witness ==
    /\ newer = <<TRUE>>
    /\ self.time = other.time
    /\ ~self.complete /\ ~other.complete
    /\ self.volume > other.volume

\* C2: for two bars of different timestamps, self.NewerThan(other) is
\* self.time > other.time, whatever the completeness flags and the volumes.
C2_DifferentTimestamps ==
    (newer # <<>> /\ self.time # other.time) => (newer[1] <=> self.time > other.time)

C2_Witness ==
    /\ newer = <<TRUE>>
    /\ self.time > other.time
    /\ ~self.complete /\ other.complete
    /\ self.volume < other.volume

----------------------------------------------------------------------------
(* The poller *)

Bar(t, c, v) == [time |-> t, complete |-> c, volume |-> v]

\* the two batches of the scenario: the forming bar of t0, then the same bar
\* complete followed by the forming bar of t1
ScenarioRun(t0, t1) ==
    /\ t0 < t1
    /\ Len(batches) >= 2
    /\ cursors[1] = <<>>
    /\ batches[1] = <<Bar(t0, FALSE, 3)>>
    /\ batches[2] = <<Bar(t0, TRUE, 5), Bar(t1, FALSE, 1)>>

\* C3: without --completed-only and starting with no cursor, batch 1 =
\* [t0 incomplete vol 3] prints exactly that bar, and batch 2 = [t0 complete
\* vol 5, t1 incomplete vol 1] prints exactly those two bars, in that order.
C3_FinalizedThenNext ==
    \A t0, t1 \in Times :
        (~completedOnly /\ ScenarioRun(t0, t1)) =>
            /\ emissions[1] = <<Marshal(Bar(t0, FALSE, 3))>>
            /\ emissions[2] = <<Marshal(Bar(t0, TRUE, 5)), Marshal(Bar(t1, FALSE, 1))>>

C3_Witness ==
    /\ ~completedOnly
    /\ ScenarioRun(0, 1)
    /\ Len(emissions[1]) = 1
    /\ Len(emissions[2]) = 2

\* the completeness flag of a printed line
LineComplete(l) == l[1]

\* C4: with --completed-only no incomplete bar is ever printed, and the two
\* batches of the scenario print one line in all: nothing after batch 1, the
\* complete t0 bar after batch 2, never the t1 bar.
C4_CompletedOnly ==
    completedOnly =>
        /\ \A i \in 1..Len(emissions) : \A j \in 1..Len(emissions[i]) :
               LineComplete(emissions[i][j])
        /\ \A t0, t1 \in Times :
               ScenarioRun(t0, t1) =>
                   /\ emissions[1] = <<>>
                   /\ emissions[2] = <<Marshal(Bar(t0, TRUE, 5))>>

C4_Witness ==
    /\ completedOnly
    /\ ScenarioRun(0, 1)
    /\ emissions[1] = <<>>
    /\ Len(emissions[2]) = 1

\* C5: when a cycle starts with a complete bar C as the cursor (C was the last
\* bar of the batch before) and its batch holds C again, unchanged, the cycle
\* does not print C; so for every cycle of the run, however often C comes back.
C5_NoReplayOfCompleted ==
    \A i \in 1..Len(batches) :
        (cursors[i] # <<>> /\ cursors[i][1].complete
            /\ \E j \in 1..Len(batches[i]) : batches[i][j] = cursors[i][1])
        => \A k \in 1..Len(emissions[i]) : emissions[i][k] # Marshal(cursors[i][1])

C5_Witness ==
    /\ Len(batches) = 3
    /\ batches[1] = <<Bar(1, TRUE, 5)>>
    /\ batches[2] = batches[1]
    /\ batches[3] = batches[1]
    /\ emissions = <<<<Marshal(Bar(1, TRUE, 5))>>, <<>>, <<>>>>

----------------------------------------------------------------------------
(* The live stream consumer and the watchdog *)

\* a payload line of a feed, by its discriminant: PRICE on the price feed, any
\* decoded line that is not a heartbeat on the transaction feed
IsPayloadLine(f, l) ==
    IF f = "pricing" THEN l.body = "PRICE"
    ELSE l.body \notin {"HEARTBEAT", "MALFORMED"}

IsHeartbeatLine(l) == l.body = "HEARTBEAT"

\* the lines of ls that are to be printed, in their order
RECURSIVE ExpectedOutput(_)
ExpectedOutput(ls) ==
    IF ls = <<>> THEN <<>>
    ELSE (IF IsPayloadLine(feed, Head(ls)) \/ (IsHeartbeatLine(Head(ls)) /\ heartbeat)
          THEN <<Head(ls)>> ELSE <<>>)
         \o ExpectedOutput(Tail(ls))

\* the lines the consumer is done with: all it has read, but for the
\* heartbeat line it is still holding at the channel send
Handled == IF cpc = "send" THEN SubSeq(input, 1, Len(input) - 1) ELSE input

\* C6: the output is exactly the payload lines read, together with the
\* heartbeat lines read iff --heartbeat is set, each as it was read and in the
\* order of arrival; without --heartbeat no heartbeat line is ever printed.
C6_OutputIsFilteredInput ==
    /\ stdout = ExpectedOutput(Handled)
    /\ ~heartbeat => \A i \in 1..Len(stdout) : ~IsHeartbeatLine(stdout[i])

C6_Witness ==
    /\ heartbeat
    /\ Len(input) = 3
    /\ input[1].body = "HEARTBEAT"
    /\ input[2].body = "PRICE"
    /\ input[3].body = "HEARTBEAT"
    /\ stdout = input

\* C7: when ReadLine reports the end of the stream the consumer returns nil;
\* so for PRICE, HEARTBEAT, end of stream without --heartbeat: one line of
\* output and a nil result.
C7_EndOfStreamReturnsNil ==
    (cpc = "returned" /\ readErr = "EOF") => err = "nil"

\* C8: the watchdog ends the process only when a full heartbeatTimeout has
\* passed since the last signal it received (or since the start), and each
\* time it waits, its timer runs out no earlier than heartbeatTimeout after
\* that signal: signals less than heartbeatTimeout apart never let it fire.
C8_NoTimeoutWhileSignalled ==
    WatchdogEnabled(heartbeatTimeout) =>
        /\ proc = "panicked" => sinceSignal >= heartbeatTimeout
        /\ wpc = "select" => timer + sinceSignal >= heartbeatTimeout

C8_Witness ==
    /\ heartbeatTimeout > 0
    /\ signals = 3
    /\ proc = "running"
    /\ wpc = "select"
    /\ timer = heartbeatTimeout - 1
    /\ sinceSignal = 1

\* C9: with the watchdog enabled, once heartbeatTimeout has passed since the
\* last received signal (or the start), the process ends by the watchdog's
\* panic unless a new signal is received; this whether the consumer waits in
\* a read, prints payload lines or waits at the send.  (A consumer that has
\* itself returned is no longer in any of these.)
C9_TimeoutPanics ==
    \A n \in 0..MaxLines :
        (/\ WatchdogEnabled(heartbeatTimeout)
         /\ proc = "running"
         /\ cpc # "returned"
         /\ sinceSignal >= heartbeatTimeout
         /\ signals = n)
        ~> (proc = "panicked" \/ signals > n \/ cpc = "returned")

C9_Witness ==
    /\ proc = "panicked"
    /\ signals = 1
    /\ cpc = "read"
    /\ Len(stdout) = 1
    /\ sinceSignal >= heartbeatTimeout

\* C10: with heartbeatTimeout = 0 there is no watchdog goroutine, the consumer
\* never sends on the channel nor waits at it, and the process never ends by
\* the watchdog's panic, whatever the lines read.
C10_ZeroDisablesWatchdog ==
    heartbeatTimeout = 0 =>
        /\ wpc = "none"
        /\ cpc # "send"
        /\ signals = 0
        /\ proc # "panicked"

C10_Witness ==
    /\ heartbeatTimeout = 0
    /\ Len(input) = 3
    /\ \A i \in 1..3 : input[i].body = "HEARTBEAT"
    /\ cpc = "read"
    /\ proc = "running"

\* the lines of the stream that json.Unmarshal rejects
Undecodable(l) == l.body = "MALFORMED"

\* C11: a line that fails to decode makes the consumer return the decode
\* error at once: the line is the last one read, the consumer has returned
\* with the error, the line is not in the output, the consumer did not stop at
\* the channel send for it, and nothing was read or printed after it.
C11_DecodeErrorIsFatal ==
    \A i \in 1..Len(input) :
        Undecodable(input[i]) =>
            /\ i = Len(input)
            /\ cpc = "returned"
            /\ err = "unmarshal"
            /\ readErr = ""
            /\ line = <<>>
            /\ \A k \in 1..Len(stdout) : stdout[k].n < i
            /\ stdout = ExpectedOutput(SubSeq(input, 1, i - 1))

C11_Witness ==
    /\ Len(input) = 2
    /\ input[1].body = "PRICE"
    /\ Undecodable(input[2])
    /\ stdout = <<input[1]>>
    /\ proc = "exited"
    /\ err = "unmarshal"

\* C12: a line that is a JSON object without a `type` member makes the
\* consumer return a decode error, on both feeds: it is the last line read and
\* it is not printed.
C12_MissingTypeIsFatal ==
    \A i \in 1..Len(input) :
        input[i].body = "NOTYPE" =>
            /\ i = Len(input)
            /\ cpc = "returned"
            /\ err = "unmarshal"
            /\ \A k \in 1..Len(stdout) : stdout[k] # input[i]

----------------------------------------------------------------------------
(* The poller: failures, the cursor, the order of the output *)

\* C13: a poll that fails -- a status other than 200, a body that does not
\* parse, a body that parses but has no candles list -- ends the poller by a
\* returned error: the poller has returned with an error value, it has not
\* crashed, and the failing cycle has printed nothing.
C13_FailedPollReturnsError ==
    ppc # "polling" =>
        /\ ppc = "returned"
        /\ perr \in PollErrors
        /\ Len(emissions) = Len(batches)

\* cursor and window-start as cycle i left them
CursorAfter(i) == IF i < Len(batches) THEN cursors[i + 1] ELSE lastCandle
FromAfter(i) == IF i < Len(batches) THEN froms[i + 1] ELSE from

\* the bars of batch b that pass the filter and are newer than cursor c
RECURSIVE PassedAgainst(_, _)
PassedAgainst(b, c) ==
    IF b = <<>> THEN <<>>
    ELSE (IF /\ ~(completedOnly /\ ~Head(b).complete)
             /\ (c = <<>> \/ NewerThan(Head(b), c[1]))
          THEN <<Marshal(Head(b))>> ELSE <<>>)
         \o PassedAgainst(Tail(b), c)

\* C14: in each cycle every bar of the batch is compared with the cursor as
\* it was when the cycle began; after a non-empty batch the cursor is the last
\* bar of the batch, complete or not, printed or not, and the window-start is
\* that bar's timestamp; after an empty batch both are as they were.
C14_CursorUpdate ==
    \A i \in 1..Len(batches) :
        LET b == batches[i]
        IN  /\ emissions[i] = PassedAgainst(b, cursors[i])
            /\ Len(b) # 0 => /\ CursorAfter(i) = <<b[Len(b)]>>
                              /\ FromAfter(i) = b[Len(b)].time
            /\ Len(b) = 0 => /\ CursorAfter(i) = cursors[i]
                              /\ FromAfter(i) = froms[i]

C14_Witness ==
    /\ ~completedOnly
    /\ batches = << <<Bar(1, FALSE, 3), Bar(1, FALSE, 1)>>, <<>>, <<Bar(0, TRUE, 5)>> >>
    /\ emissions = << <<Marshal(Bar(1, FALSE, 3)), Marshal(Bar(1, FALSE, 1))>>, <<>>, <<>> >>
    /\ cursors = << <<>>, <<Bar(1, FALSE, 1)>>, <<Bar(1, FALSE, 1)>> >>
    /\ froms = <<0, 1, 1>>
    /\ lastCandle = <<Bar(0, TRUE, 5)>>
    /\ from = 0

\* C15 as first stated: in completed-only mode the cursor a cycle leaves is
\* never one of the incomplete bars of its batch, all of which were skipped.
C15_SkippedBarNeverCursor ==
    completedOnly =>
        \A i \in 1..Len(batches) :
            \A j \in 1..Len(batches[i]) :
                ~batches[i][j].complete => CursorAfter(i) # <<batches[i][j]>>

\* C15: in completed-only mode an incomplete bar is passed over by the loop
\* -- it is not compared and not printed -- but the cursor update after the
\* loop does not look at the filter: when the last bar of a batch is an
\* incomplete bar that was passed over, it is the cursor all the same.
C15_SkippedBarStillMovesCursor ==
    completedOnly =>
        \A i \in 1..Len(batches) :
            LET b == batches[i]
            IN  /\ \A k \in 1..Len(emissions[i]) : LineComplete(emissions[i][k])
                /\ emissions[i] = PassedAgainst(SelectSeq(b, LAMBDA c : c.complete), cursors[i])
                /\ (Len(b) # 0 /\ ~b[Len(b)].complete) => CursorAfter(i) = <<b[Len(b)]>>

C15_Witness ==
    /\ completedOnly
    /\ batches = << <<Bar(0, TRUE, 1), Bar(1, FALSE, 3)>> >>
    /\ emissions = << <<Marshal(Bar(0, TRUE, 1))>> >>
    /\ lastCandle = <<Bar(1, FALSE, 3)>>
    /\ from = 1

----------------------------------------------------------------------------
(* The hand-off of heartbeat signals *)

\* how many of the lines ls are heartbeat lines
HeartbeatsIn(ls) == Cardinality({i \in 1..Len(ls) : IsHeartbeatLine(ls[i])})

\* C16: with the watchdog enabled the watchdog has received exactly one
\* signal for each heartbeat line the consumer is done with and none for any
\* other line; while the consumer waits at the send it holds the heartbeat
\* line it read last, that line is not yet printed, and no line was read
\* after it.
C16_OneSignalPerHeartbeat ==
    WatchdogEnabled(heartbeatTimeout) =>
        /\ signals = HeartbeatsIn(Handled)
        /\ HeartbeatsIn(stdout) = IF heartbeat THEN signals ELSE 0
        /\ cpc = "send" =>
                /\ line = <<input[Len(input)]>>
                /\ IsHeartbeatLine(line[1])
                /\ \A k \in 1..Len(stdout) : stdout[k] # line[1]
                /\ signals = HeartbeatsIn(input) - 1
        /\ cpc # "send" => line = <<>>

C16_Witness ==
    /\ WatchdogEnabled(heartbeatTimeout)
    /\ heartbeat
    /\ Len(input) = 3
    /\ input[1].body = "HEARTBEAT"
    /\ input[2].body = "PRICE"
    /\ input[3].body = "HEARTBEAT"
    /\ cpc = "send"
    /\ signals = 1
    /\ stdout = <<input[1], input[2]>>

\* the consumer waits at `heartbeatChannel <- struct{}{}` in a live process
BlockedOnSend == cpc = "send" /\ proc = "running"

\* C17: the hand-off does not deadlock.  While the consumer waits at the send
\* in a live process the watchdog goroutine is alive, in its select or on its
\* way to it, and a signal is in flight only while the consumer waits (the
\* channel buffers nothing); and the wait always ends: the watchdog receives
\* the signal and the consumer reads on, or the timeout ends the process.
C17_NoDeadlock ==
    /\ [](BlockedOnSend => wpc \in {"loop", "select"})
    /\ [](line # <<>> => cpc = "send")
    /\ BlockedOnSend ~> (cpc = "read" \/ proc = "panicked")

C17_Witness ==
    /\ BlockedOnSend
    /\ wpc = "loop"
    /\ signals = 1
    /\ Len(input) = 2

----------------------------------------------------------------------------
(* What becomes of a decoded line *)

\* line l is in the output, as it was read
InOutput(l) == \E k \in 1..Len(stdout) : stdout[k] = l

\* C18 as first stated: on both feeds every decoded line the consumer is done
\* with that is not a heartbeat is in the output.
C18_NonHeartbeatIsEmitted ==
    \A i \in 1..Len(Handled) :
        (~Undecodable(Handled[i]) /\ ~IsHeartbeatLine(Handled[i])) => InOutput(Handled[i])

\* C18: on the transaction feed every decoded line the consumer is done with
\* that is not a heartbeat is in the output, unmodified.  On the price feed a
\* decoded line is in the output when its type is PRICE; a decoded line of
\* any other type but HEARTBEAT, or of no type, is not in the output: it is
\* dropped and the consumer reads on.  A heartbeat line is in the output iff
\* --heartbeat is set.
C18_ClassifiedByFeed ==
    \A i \in 1..Len(Handled) :
        LET l == Handled[i]
        IN  ~Undecodable(l) =>
                IF IsHeartbeatLine(l) THEN InOutput(l) <=> heartbeat
                ELSE IF feed = "transactions" THEN InOutput(l)
                ELSE InOutput(l) <=> l.body = "PRICE"

C18_Witness ==
    /\ feed = "pricing"
    /\ Len(input) = 3
    /\ input[1].body = "ORDER_FILL"
    /\ input[2].body = "PRICE"
    /\ input[3].body = "NOTYPE"
    /\ stdout = <<input[2]>>
    /\ cpc = "read"
    /\ proc = "running"

----------------------------------------------------------------------------
(* The output of the poller over a whole run *)

\* all lines printed so far, in the order printed
RECURSIVE Flat(_)
Flat(es) == IF es = <<>> THEN <<>> ELSE Head(es) \o Flat(Tail(es))

LineVolume(l) == l[2]
LineTime(l) == l[3]

\* C19: the timestamps of the lines printed never decrease over the run: once
\* a bar of timestamp t is printed, no bar of an earlier timestamp is printed
\* after it, whatever batches (each sorted by timestamp) the polls return.
C19_EmittedTimesNeverDecrease ==
    LET out == Flat(emissions)
    IN  \A i, j \in 1..Len(out) : i < j => LineTime(out[i]) <= LineTime(out[j])

\* C20: over a run whose batches are each sorted by timestamp, no bar version
\* (timestamp, completeness, volume) is printed twice, and after a complete
\* bar of timestamp t is printed no further bar of timestamp t is printed.
C20_ExactlyOnce ==
    LET out == Flat(emissions)
    IN  \A i, j \in 1..Len(out) :
            i < j => /\ out[i] # out[j]
                     /\ ~(LineComplete(out[i]) /\ LineTime(out[i]) = LineTime(out[j]))

====
